---- MODULE Spec2Model ----
(***************************************************************************)
(* A model of task_hook, a git prepare-commit-msg hook.                    *)
(*                                                                         *)
(*   src/src/lib.rs                     get_current_branch, process_commit,*)
(*                                      create_task_number_string,         *)
(*                                      delegate_to_local_git_hook         *)
(*   src/src/bin/prepare-commit-msg.rs  main                               *)
(*                                                                         *)
(* Text (branch names, file contents, command output) is a sequence of     *)
(* one-character strings, so that matching, trimming and concatenation are *)
(* computed character by character.                                        *)
(***************************************************************************)
EXTENDS Integers, Sequences, FiniteSets, TLC

VARIABLES
    pc,                  \* position of the running entry point
    args,                \* env::args(): program name, then the arguments
    branch_name,         \* process_commit's / the extractor's branch_name
    exists,              \* the commit-message file exists
    content,             \* the commit-message file's content
    current_message,     \* process_commit's local current_message
    task_number_string,  \* process_commit's local task_number_string
    result,              \* what the last rewrite call returned
    fail_at,             \* the step of process_commit that failed
    created,             \* File::create has opened (truncated) the file
    before,              \* the content when the current call started
    original,            \* the content before the first call
    calls,               \* process_commit calls that have returned
    oks,                 \* process_commit calls that have returned Ok
    current_branch,      \* what get_current_branch returned
    q1,                  \* the outcome of git rev-parse --abbrev-ref HEAD
    q2,                  \* the outcome of git rev-parse --short HEAD
    exit_code,           \* the process's exit status, NotExited while it runs
    delegated,           \* delegate_to_local_git_hook has been entered
    hook,                \* the local .git/hooks/prepare-commit-msg file
    hook_runs,           \* the argument lists the local hook was invoked with
    deleg_result         \* what delegate_to_local_git_hook returned

vars == <<pc, args, branch_name, exists, content, current_message,
          task_number_string, result, fail_at, created, before, original,
          calls, oks, current_branch, q1, q2, exit_code, delegated, hook,
          hook_runs, deleg_result>>

(***************************************************************************)
(* Bounds of the model.                                                    *)
(***************************************************************************)
\* longest text that follows a branch prefix in the extractor's inputs
MaxTail == 4
\* longest text that follows a branch prefix in the rewrite's and the hook's inputs
MaxRunTail == 3
\* process_commit calls made on the same file
MaxCalls == 3
\* largest exit status the local hook returns
MaxCode == 3

(***************************************************************************)
(* Text.                                                                   *)
(***************************************************************************)
Digits == {"0", "1", "2", "3", "4", "5", "6", "7", "8", "9"}

\* char::is_whitespace on the characters the model uses
WhiteSpace == {" ", "\t", "\n", "\r"}

IsDigit(c) == c \in Digits

Drop(s, n) == SubSeq(s, n + 1, Len(s))

Take(s, n) == SubSeq(s, 1, n)

StartsWith(s, p) == Len(p) <= Len(s) /\ Take(s, Len(p)) = p

\* the strict prefixes of s: what a failed write_all can leave behind
StrictPrefixes(s) == {Take(s, n) : n \in 0..(Len(s) - 1)}

\* str::trim
RECURSIVE TrimStart(_)
TrimStart(s) ==
    IF s # <<>> /\ Head(s) \in WhiteSpace THEN TrimStart(Tail(s)) ELSE s

RECURSIVE TrimEnd(_)
TrimEnd(s) ==
    IF s # <<>> /\ s[Len(s)] \in WhiteSpace
    THEN TrimEnd(Take(s, Len(s) - 1))
    ELSE s

Trim(s) == TrimEnd(TrimStart(s))

w_task == <<"t", "a", "s", "k">>
w_pbi == <<"p", "b", "i">>
w_bug == <<"b", "u", "g">>
w_feature == <<"f", "e", "a", "t", "u", "r", "e">>
w_feat == <<"f", "e", "a", "t">>
w_HEAD == <<"H", "E", "A", "D">>
w_main == <<"m", "a", "i", "n">>

(***************************************************************************)
(* The work-item pattern and the regex engine on it.  A pattern            *)
(* ^(?:a1|a2|...)/([0-9]+).*$ is the sequence of its alternatives.         *)
(***************************************************************************)
WORK_ITEM_REGEX_PATTERN == <<w_task, w_pbi, w_bug, w_feature, w_feat>>

\* the pattern main compiles: ^task/([0-9]+).*$
task_number_regex == <<w_task>>

\* '.' matches any character but the line feed
DotMatches(c) == c # "\n"

\* .*$ : every remaining character is matched by '.', up to the end of the text
RestMatches(s) == \A i \in 1..Len(s) : DotMatches(s[i])

\* the lengths n >= 1 for which s starts with n digits: the ways [0-9]+ can match
DigitRuns(s) == {n \in 1..Len(s) : \A i \in 1..n : IsDigit(s[i])}

\* a lazy quantifier, ([0-9]+?): the shortest run is tried first
CaptureLazy(s) ==
    LET ok == {n \in DigitRuns(s) : RestMatches(Drop(s, n))}
    IN  IF ok = {} THEN {}
        ELSE {Take(s, CHOOSE n \in ok : \A m \in ok : n <= m)}

\* ([0-9]+).*$ on s: the greedy quantifier tries the longest run first and
\* backs off until the rest matches; the result is the set holding the
\* capture, empty when nothing matches
CaptureAfterSlash(s) ==
    LET ok == {n \in DigitRuns(s) : RestMatches(Drop(s, n))}
    IN  IF ok = {} THEN {}
        ELSE {Take(s, CHOOSE n \in ok : \A m \in ok : m <= n)}

\* Regex::captures: the alternatives are tried in order from the start of
\* the text (^); the first that leads to a match of the whole pattern wins
RegexCaptures(regex, s) ==
    LET hits == {i \in 1..Len(regex) :
                    /\ StartsWith(s, regex[i] \o <<"/">>)
                    /\ CaptureAfterSlash(Drop(s, Len(regex[i]) + 1)) # {}}
    IN  IF hits = {} THEN {}
        ELSE LET i == CHOOSE j \in hits : \A k \in hits : j <= k
             IN  CaptureAfterSlash(Drop(s, Len(regex[i]) + 1))

\* the extractor matching with the pattern main compiles instead
TaskOnlyPattern == <<w_task>>

get_work_item_regex == WORK_ITEM_REGEX_PATTERN

create_task_number_string(b) ==
    LET captures == RegexCaptures(get_work_item_regex, b)
    IN  IF captures # {}
        THEN <<"#">> \o (CHOOSE c \in captures : TRUE)
        ELSE <<>>

(***************************************************************************)
(* Inputs.  A branch name is a prefix followed by a tail over TailChars.   *)
(* git's ref names hold no control character, so no input holds a line     *)
(* feed.                                                                   *)
(***************************************************************************)
TailChars == {"/", "0", "1", "-"}

Tails(n) == UNION {[1..k -> TailChars] : k \in 0..n}

BranchPrefixes ==
    {w_task, w_pbi, w_bug, w_feature, w_feat, w_main, w_HEAD, <<>>,
     <<"T", "a", "s", "k">>, <<"t", "a", "s">>, <<"x", "t", "a", "s", "k">>,
     <<"f", "e", "a", "t", "u", "r">>}

Branches(n) == {p \o t : p \in BranchPrefixes, t \in Tails(n)}

\* the prefixes of the branch names the rewrite and the hook run on
RunPrefixes == {w_task, w_bug, w_feature, w_feat, w_main, w_HEAD, <<"T", "a", "s", "k">>}

RunBranches(n) == {p \o t : p \in RunPrefixes, t \in Tails(n)}

NotExited == "running"

NoBranch == [ok |-> FALSE, val |-> <<>>]

NoQuery == [kind |-> "none", out |-> <<>>]

NoHook == [exists |-> FALSE, mode |-> 0, git_dir |-> "none",
           status |-> "none", code |-> 0]

(***************************************************************************)
(* The extractor on its own: a branch name is drawn, then extracted.       *)
(***************************************************************************)
InitExtract ==
    /\ pc = "input"
    /\ branch_name \in Branches(MaxTail)
    /\ task_number_string = <<>>
    /\ args = <<>>
    /\ exists = FALSE
    /\ content = <<>>
    /\ current_message = <<>>
    /\ result = "none"
    /\ fail_at = "none"
    /\ created = FALSE
    /\ before = <<>>
    /\ original = <<>>
    /\ calls = 0
    /\ oks = 0
    /\ current_branch = NoBranch
    /\ q1 = NoQuery
    /\ q2 = NoQuery
    /\ exit_code = NotExited
    /\ delegated = FALSE
    /\ hook = NoHook
    /\ hook_runs = <<>>
    /\ deleg_result = "none"

Extract ==
    /\ pc = "input"
    /\ task_number_string' = create_task_number_string(branch_name)
    /\ pc' = "extracted"
    /\ UNCHANGED <<args, branch_name, exists, content, current_message, result,
                   fail_at, created, before, original, calls, oks,
                   current_branch, q1, q2, exit_code, delegated, hook,
                   hook_runs, deleg_result>>

NextExtract == Extract

SpecExtract == InitExtract /\ [][NextExtract]_vars

(***************************************************************************)
(* C1.  The reference the grammar of the specification assigns to a branch *)
(* name: a prefix among task, pbi, bug, feature, feat, a slash, and the    *)
(* maximal run of digits that starts right after the slash.                *)
(***************************************************************************)
GrammarPrefixes == {w_task, w_pbi, w_bug, w_feature, w_feat}

RECURSIVE LeadingDigits(_)
LeadingDigits(s) ==
    IF s # <<>> /\ Head(s) \in Digits
    THEN <<Head(s)>> \o LeadingDigits(Tail(s))
    ELSE <<>>

GrammarMatches(b) ==
    \E p \in GrammarPrefixes :
        /\ Len(b) >= Len(p) + 2
        /\ \A i \in 1..Len(p) : b[i] = p[i]
        /\ b[Len(p) + 1] = "/"
        /\ b[Len(p) + 2] \in Digits

SlashAt(b) == CHOOSE i \in 1..Len(b) : b[i] = "/" /\ \A j \in 1..(i - 1) : b[j] # "/"

ExpectedReference(b) ==
    IF GrammarMatches(b)
    THEN <<"#">> \o LeadingDigits(Drop(b, SlashAt(b)))
    ELSE <<>>

\* C1: for every branch name, extraction returns "#" followed by exactly the
\* maximal digit run right after the slash (leading zeros kept) when the name
\* is one of task, pbi, bug, feature, feat, then "/", then at least one digit,
\* and the empty string for every other name.
C1_ExtractionFollowsGrammar ==
    pc = "extracted" => task_number_string = ExpectedReference(branch_name)

\* task/01-: a leading zero is kept and the run stops at the first non-digit
C1_Witness ==
    /\ pc = "extracted"
    /\ branch_name = w_task \o <<"/", "0", "1", "-">>
    /\ task_number_string = <<"#", "0", "1">>

(***************************************************************************)
(* process_commit, one action per I/O step.  Every step that performs a    *)
(* system call can fail; a write of no bytes performs none.                *)
(***************************************************************************)
\* the commit messages the file starts with
m_fix == <<"F", "i", "x", " ", "t", "h", "e", " ", "b", "u", "g", "\n">>

Messages == {<<>>, m_fix, <<"#", "1">>}

\* a file opened for writing without truncation
NotTruncated(c) == c

\* File::create on an existing file: the content is dropped
Truncated(c) == <<>>

\* the reference-first placement
Prepended(c, s) == s \o c

\* write!(write_file, "{}", s) on a file holding c: s follows c
Written(c, s) == c \o s

\* a call returns: result and bookkeeping
Returns(r, at) ==
    /\ result' = r
    /\ fail_at' = at
    /\ calls' = calls + 1
    /\ oks' = IF r = "Ok" THEN oks + 1 ELSE oks
    /\ pc' = "returned"

\* a variant that opens the file for writing before it reads it
ReadMessageTruncating ==
    /\ pc = "open"
    /\ \/ /\ Returns("Err", "open")
          /\ content' = Truncated(content)
          /\ created' = TRUE
          /\ UNCHANGED <<current_message, task_number_string>>
       \/ /\ exists
          /\ Returns("Err", "read")
          /\ content' = Truncated(content)
          /\ created' = TRUE
          /\ UNCHANGED <<current_message, task_number_string>>
       \/ /\ exists
          /\ current_message' = content
          /\ task_number_string' = create_task_number_string(branch_name)
          /\ pc' = "create"
          /\ UNCHANGED <<result, fail_at, calls, oks, content, created>>
    /\ UNCHANGED <<args, branch_name, exists, before, original,
                   current_branch, q1, q2, exit_code, delegated, hook,
                   hook_runs, deleg_result>>

\* File::open(commit_filename)?, read_to_string(&mut current_message)?,
\* then create_task_number_string(branch_name)
ReadMessage ==
    /\ pc = "open"
    /\ \/ /\ Returns("Err", "open")
          /\ UNCHANGED <<current_message, task_number_string>>
       \/ /\ exists
          /\ Returns("Err", "read")
          /\ UNCHANGED <<current_message, task_number_string>>
       \/ /\ exists
          /\ current_message' = content
          /\ task_number_string' = create_task_number_string(branch_name)
          /\ pc' = "create"
          /\ UNCHANGED <<result, fail_at, calls, oks>>
    /\ UNCHANGED <<args, branch_name, exists, content, created, before,
                   original, current_branch, q1, q2, exit_code, delegated,
                   hook, hook_runs, deleg_result>>

\* File::create(commit_filename)?
CreateFile ==
    /\ pc = "create"
    /\ \/ /\ Returns("Err", "create")
          /\ UNCHANGED <<content, created>>
       \/ /\ content' = Truncated(content)
          /\ created' = TRUE
          /\ pc' = "write_msg"
          /\ UNCHANGED <<result, fail_at, calls, oks>>
    /\ UNCHANGED <<args, branch_name, exists, current_message,
                   task_number_string, before, original, current_branch, q1,
                   q2, exit_code, delegated, hook, hook_runs, deleg_result>>

\* write!(write_file, "{}", current_message)?
WriteMessage ==
    /\ pc = "write_msg"
    /\ \/ /\ content' = Written(content, current_message)
          /\ pc' = "write_ref"
          /\ UNCHANGED <<result, fail_at, calls, oks>>
       \/ \E part \in StrictPrefixes(current_message) :
             /\ content' = Written(content, part)
             /\ Returns("Err", "write_msg")
    /\ UNCHANGED <<args, branch_name, exists, current_message,
                   task_number_string, created, before, original,
                   current_branch, q1, q2, exit_code, delegated, hook,
                   hook_runs, deleg_result>>

\* write!(write_file, "{}", task_number_string)?; Ok(())
WriteReference ==
    /\ pc = "write_ref"
    /\ \/ /\ content' = Written(content, task_number_string)
          /\ Returns("Ok", "none")
       \/ \E part \in StrictPrefixes(task_number_string) :
             /\ content' = Written(content, part)
             /\ Returns("Err", "write_ref")
    /\ UNCHANGED <<args, branch_name, exists, current_message,
                   task_number_string, created, before, original,
                   current_branch, q1, q2, exit_code, delegated, hook,
                   hook_runs, deleg_result>>

process_commit == ReadMessage \/ CreateFile \/ WriteMessage \/ WriteReference

(***************************************************************************)
(* process_commit called repeatedly on one file with one branch name, as   *)
(* the library's callers and tests do.                                     *)
(***************************************************************************)
InitCommit ==
    /\ pc = "call"
    /\ branch_name \in RunBranches(MaxRunTail)
    /\ exists \in BOOLEAN
    /\ content \in (IF exists THEN Messages ELSE {<<>>})
    /\ original = content
    /\ before = content
    /\ current_message = <<>>
    /\ task_number_string = <<>>
    /\ result = "none"
    /\ fail_at = "none"
    /\ created = FALSE
    /\ calls = 0
    /\ oks = 0
    /\ args = <<>>
    /\ current_branch = NoBranch
    /\ q1 = NoQuery
    /\ q2 = NoQuery
    /\ exit_code = NotExited
    /\ delegated = FALSE
    /\ hook = NoHook
    /\ hook_runs = <<>>
    /\ deleg_result = "none"

\* process_commit(branch_name, commit_filename)? is entered: the caller goes
\* on to another call only after an Ok
Call ==
    /\ pc \in {"call", "returned"}
    /\ result # "Err"
    /\ calls < MaxCalls
    /\ pc' = "open"
    /\ before' = content
    /\ result' = "none"
    /\ fail_at' = "none"
    /\ created' = FALSE
    /\ UNCHANGED <<args, branch_name, exists, content, current_message,
                   task_number_string, original, calls, oks, current_branch,
                   q1, q2, exit_code, delegated, hook, hook_runs,
                   deleg_result>>

NextCommit == Call \/ process_commit

SpecCommit == InitCommit /\ [][NextCommit]_vars

RECURSIVE Copies(_, _)
Copies(s, k) == IF k = 0 THEN <<>> ELSE s \o Copies(s, k - 1)

\* C2: a successful process_commit leaves the file equal to the content it
\* found followed directly by the reference of the branch: "#" and the digits
\* on a matching branch, nothing on any other branch (the file is then
\* byte-identical).
C2_AppendPlacement ==
    (pc = "returned" /\ result = "Ok") =>
        /\ content = before \o ExpectedReference(branch_name)
        /\ ~GrammarMatches(branch_name) => content = before

\* bug/01 on a file holding "Fix the bug\n": the file ends as "Fix\n#01"
C2_Witness ==
    /\ pc = "returned"
    /\ result = "Ok"
    /\ calls = 1
    /\ branch_name = w_bug \o <<"/", "0", "1">>
    /\ before = m_fix
    /\ content = m_fix \o <<"#", "0", "1">>

\* C9: after k successful process_commit calls on the same file with the same
\* branch the file is the original content followed by k copies of the
\* reference; a successful call leaves the file as it found it exactly when
\* the branch does not match.
C9_ReferenceRepeats ==
    (pc = "returned" /\ oks = calls) =>
        /\ content = original \o Copies(ExpectedReference(branch_name), calls)
        /\ (content = before) <=> ~GrammarMatches(branch_name)

\* two runs on task/1: original + "#1#1"
C9_Witness ==
    /\ pc = "returned"
    /\ oks = 2
    /\ calls = 2
    /\ branch_name = w_task \o <<"/", "1">>
    /\ original = m_fix
    /\ content = m_fix \o <<"#", "1", "#", "1">>

\* C10: a call that fails while opening or reading returns before the file is
\* created or truncated and leaves the content as it was; the content differs
\* from both the original and original + reference only after a failure that
\* follows the truncating File::create.
C10_FailureBeforeTruncation ==
    pc = "returned" =>
        /\ fail_at \in {"open", "read"} =>
              (result = "Err" /\ ~created /\ content = before)
        /\ content \notin {before, before \o ExpectedReference(branch_name)} =>
              (result = "Err" /\ created /\ fail_at \in {"write_msg", "write_ref"})

\* a read failure on an existing file holding "Fix the bug\n": nothing was truncated
C10_Witness ==
    /\ pc = "returned"
    /\ result = "Err"
    /\ fail_at = "read"
    /\ exists
    /\ content = m_fix
    /\ ~created

(***************************************************************************)
(* The hook's entry point: main of prepare-commit-msg.                     *)
(***************************************************************************)
None == [some |-> FALSE, val |-> ""]

Some(x) == [some |-> TRUE, val |-> x]

\* env::args().nth(n)
nth(n) == IF Len(args) > n THEN Some(args[n + 1]) ELSE None

commit_filename == nth(1)

commit_source == nth(2)

Ok(b) == [ok |-> TRUE, val |-> b]

Err == [ok |-> FALSE, val |-> <<>>]

\* the commit sources git passes, and one that differs from message by case only
Sources == {"message", "merge", "squash", "commit", "template", "Message"}

HookArgs ==
    {<<"hook">>, <<"hook", "MSG">>}
        \cup {<<"hook", "MSG", s>> : s \in Sources}
        \cup {<<"hook", "MSG", "commit", "HEAD">>}

b_example == w_pbi \o <<"/", "4", "5", "6", "-", "u", "s", "e", "r", "-",
                         "s", "t", "o", "r", "y">>

HookBranches == RunBranches(MaxRunTail) \cup {b_example}

\* what git prints around a name: a line feed after it, or more white space
Paddings == {<< <<>>, <<"\n">> >>, << <<" ">>, <<"\t", "\r", "\n">> >>}

RawNames == {pad[1] \o n \o pad[2] : n \in HookBranches, pad \in Paddings}

RawHashes == {<<"a", "b", "c", "1", "2", "3", "4", "\n">>, <<"0", "\n">>}

InitHook ==
    /\ pc = "start"
    /\ args \in HookArgs
    /\ exists \in BOOLEAN
    /\ content \in (IF exists THEN Messages ELSE {<<>>})
    /\ original = content
    /\ before = content
    /\ branch_name = <<>>
    /\ current_message = <<>>
    /\ task_number_string = <<>>
    /\ result = "none"
    /\ fail_at = "none"
    /\ created = FALSE
    /\ calls = 0
    /\ oks = 0
    /\ current_branch = NoBranch
    /\ q1 = NoQuery
    /\ q2 = NoQuery
    /\ exit_code = NotExited
    /\ delegated = FALSE
    /\ hook = NoHook
    /\ hook_runs = <<>>
    /\ deleg_result = "none"

\* lines 39-44: when the hash query exits unsuccessfully the if has no else,
\* and control reaches Ok(branch)
BranchAfterFailedHash(branch) == Ok(branch)

\* get_current_branch up to its first result: git rev-parse --abbrev-ref HEAD
QueryBranch ==
    /\ pc = "start"
    /\ \/ /\ q1' = [kind |-> "spawn_err", out |-> <<>>]
          /\ current_branch' = Err
          /\ pc' = "dispatch"
       \/ /\ q1' = [kind |-> "exit_fail", out |-> <<>>]
          /\ current_branch' = Err
          /\ pc' = "dispatch"
       \/ /\ q1' = [kind |-> "bad_utf8", out |-> <<>>]
          /\ current_branch' = Err
          /\ pc' = "dispatch"
       \/ \E raw \in RawNames :
             /\ q1' = [kind |-> "ok", out |-> raw]
             /\ IF Trim(raw) = w_HEAD
                THEN /\ pc' = "hash"
                     /\ UNCHANGED current_branch
                ELSE /\ current_branch' = Ok(Trim(raw))
                     /\ pc' = "dispatch"
    /\ UNCHANGED <<args, branch_name, exists, content, current_message,
                   task_number_string, result, fail_at, created, before,
                   original, calls, oks, q2, exit_code, delegated, hook,
                   hook_runs, deleg_result>>

\* get_current_branch on a detached HEAD: git rev-parse --short HEAD
QueryHash ==
    /\ pc = "hash"
    /\ \/ /\ q2' = [kind |-> "spawn_err", out |-> <<>>]
          /\ current_branch' = Err
       \/ /\ q2' = [kind |-> "exit_fail", out |-> <<>>]
          /\ current_branch' = BranchAfterFailedHash(Trim(q1.out))
       \/ /\ q2' = [kind |-> "bad_utf8", out |-> <<>>]
          /\ current_branch' = Err
       \/ \E raw \in RawHashes :
             /\ q2' = [kind |-> "ok", out |-> raw]
             /\ current_branch' = Ok(w_HEAD \o <<"-">> \o Trim(raw))
    /\ pc' = "dispatch"
    /\ UNCHANGED <<args, branch_name, exists, content, current_message,
                   task_number_string, result, fail_at, created, before,
                   original, calls, oks, q1, exit_code, delegated, hook,
                   hook_runs, deleg_result>>

get_current_branch == QueryBranch \/ QueryHash

\* the rewrite procedure is entered for a branch
BeginRewrite(branch) ==
    /\ branch_name' = branch
    /\ before' = content
    /\ pc' = "open"
    /\ UNCHANGED <<args, exists, content, current_message,
                   task_number_string, result, fail_at, created, original,
                   calls, oks, current_branch, q1, q2, exit_code, delegated,
                   hook, hook_runs, deleg_result>>

\* ordinary_commit and message_commit are not among the sources; they are
\* the rewrite procedure: read the file, extract the reference of the branch
\* under the work-item grammar, recreate the file, write message then reference
ordinary_commit(branch, filename, regex) == BeginRewrite(branch)

message_commit(branch, filename, regex) == BeginRewrite(branch)

\* every present source selects the rewrite
IsAnySource(source) == TRUE

\* commit_source == "message"
IsMessageSource(source) == source = "message"

\* the arms are tried with the missing file first
FatalExitFileFirst(branch_ok, has_file) == IF ~has_file THEN 2 ELSE 1

\* arms (Err(e), _, _) => exit(1) and (_, None, _) => exit(2), in this order
FatalExit(branch_ok, has_file) == IF ~branch_ok THEN 1 ELSE 2

Exit(code) ==
    /\ exit_code' = code
    /\ pc' = "exited"
    /\ UNCHANGED <<args, branch_name, exists, content, current_message,
                   task_number_string, result, fail_at, created, before,
                   original, calls, oks, current_branch, q1, q2, delegated,
                   hook, hook_runs, deleg_result>>

\* arm (Ok(branch), Some(filename), None)
MainOrdinary ==
    /\ pc = "dispatch"
    /\ current_branch.ok /\ commit_filename.some /\ ~commit_source.some
    /\ ordinary_commit(current_branch.val, commit_filename.val, task_number_regex)

\* arm (Ok(branch), Some(filename), Some(commit_source)), a message commit
MainMessage ==
    /\ pc = "dispatch"
    /\ current_branch.ok /\ commit_filename.some /\ commit_source.some
    /\ IsMessageSource(commit_source.val)
    /\ message_commit(current_branch.val, commit_filename.val, task_number_regex)

\* arm (Ok(branch), Some(filename), Some(commit_source)), any other source:
\* nothing is done and main returns Ok(())
MainSkip ==
    /\ pc = "dispatch"
    /\ current_branch.ok /\ commit_filename.some /\ commit_source.some
    /\ ~IsMessageSource(commit_source.val)
    /\ Exit(0)

\* arms (Err(e), _, _) and (_, None, _)
MainFatal ==
    /\ pc = "dispatch"
    /\ ~current_branch.ok \/ ~commit_filename.some
    /\ Exit(FatalExit(current_branch.ok, commit_filename.some))

\* match write_result: Ok(_) => {} and main returns Ok(()), Err(e) => exit(2)
MainWriteResult ==
    /\ pc = "returned"
    /\ Exit(IF result = "Ok" THEN 0 ELSE 2)

main ==
    \/ get_current_branch
    \/ MainOrdinary
    \/ MainMessage
    \/ MainSkip
    \/ MainFatal
    \/ MainWriteResult

NextHook == main \/ process_commit

SpecHook == InitHook /\ [][NextHook]_vars

Rewriting == pc \in {"open", "create", "write_msg", "write_ref", "returned"}

Resolved == pc \notin {"start", "hash"}

\* C3: in a run whose commit source is present and is not the literal
\* message, the commit-message file is never opened for writing, the rewrite
\* is never entered and the content stays what it was, up to and including
\* the exit, whatever the branch is.
C3_SkipLeavesFileUntouched ==
    (commit_source.some /\ commit_source.val # "message") =>
        /\ ~created
        /\ ~Rewriting
        /\ calls = 0
        /\ content = original

\* branch task/1, source merge, file "Fix the bug\n": exit with the file as it was
C3_Witness ==
    /\ pc = "exited"
    /\ commit_source = Some("merge")
    /\ current_branch = Ok(w_task \o <<"/", "1">>)
    /\ original = m_fix
    /\ content = m_fix
    /\ ~created

C5_ExitCodeByFailureClass ==
    pc = "exited" =>
        exit_code = IF ~current_branch.ok THEN 1
                    ELSE IF ~commit_filename.some \/ result = "Err" THEN 2
                    ELSE 0

\* branch resolution failed and no file path was given: exit 1
C5_Witness ==
    /\ pc = "exited"
    /\ ~current_branch.ok
    /\ ~commit_filename.some
    /\ exit_code = 1

\* C6: no run of the hook ends with status 0 without the delegation to the
\* local hook having been attempted, after the rewrite step finished.
C6_DelegationBeforeSuccess ==
    (pc = "exited" /\ exit_code = 0) => delegated

QueryFailed(q) == q.kind \in {"spawn_err", "exit_fail"}

\* C8: get_current_branch returns the trimmed name when it is not HEAD,
\* HEAD-<short-hash> when it is, and an error whenever either query cannot be
\* spawned or exits unsuccessfully, so that it never returns the bare HEAD.
C8_BranchResolver ==
    Resolved =>
        /\ (q1.kind = "ok" /\ Trim(q1.out) # w_HEAD) =>
              current_branch = Ok(Trim(q1.out))
        /\ (q1.kind = "ok" /\ Trim(q1.out) = w_HEAD /\ q2.kind = "ok") =>
              current_branch = Ok(w_HEAD \o <<"-">> \o Trim(q2.out))
        /\ (QueryFailed(q1) \/ QueryFailed(q2)) => ~current_branch.ok
        /\ current_branch.ok => current_branch.val # w_HEAD

(***************************************************************************)
(* delegate_to_local_git_hook, called on its own.                          *)
(***************************************************************************)
\* 0o111: the three executable bits of a file mode
ExecBits == 73

RECURSIVE BitAnd(_, _)
BitAnd(a, b) ==
    IF a = 0 \/ b = 0 THEN 0
    ELSE (a % 2) * (b % 2) + 2 * BitAnd(a \div 2, b \div 2)

\* st_mode of a regular file with permissions 644, 755, 700, 654, 645, 000
Modes == {33188, 33261, 33216, 33196, 33189, 32768}

\* what running the local hook yields: it cannot be spawned, it is killed by
\* a signal (no exit code), or it exits with a code
HookOutcomes ==
    {[status |-> "spawn_err", code |-> 0], [status |-> "signaled", code |-> 0]}
        \cup {[status |-> "exited", code |-> c] : c \in 0..MaxCode}

LocalHooks ==
    {[exists |-> FALSE, mode |-> 0, git_dir |-> g, status |-> "none", code |-> 0] :
        g \in {"spawn_err", "bad_utf8", "ok"}}
    \cup
    {[exists |-> TRUE, mode |-> m, git_dir |-> g, status |-> o.status, code |-> o.code] :
        m \in Modes, g \in {"spawn_err", "bad_utf8", "ok"}, o \in HookOutcomes}

InitDelegate ==
    /\ pc = "delegate"
    /\ args \in HookArgs
    /\ hook \in LocalHooks
    /\ hook_runs = <<>>
    /\ deleg_result = "none"
    /\ delegated = FALSE
    /\ exit_code = NotExited
    /\ fail_at = "none"
    /\ exists \in BOOLEAN
    /\ content \in (IF exists THEN Messages ELSE {<<>>})
    /\ original = content
    /\ before = content
    /\ branch_name = <<>>
    /\ current_message = <<>>
    /\ task_number_string = <<>>
    /\ result = "none"
    /\ created = FALSE
    /\ calls = 0
    /\ oks = 0
    /\ current_branch = NoBranch
    /\ q1 = NoQuery
    /\ q2 = NoQuery

DelegateReturns(r, at) ==
    /\ deleg_result' = r
    /\ fail_at' = at
    /\ pc' = "delegate_done"

\* git rev-parse --git-dir: .output()? and String::from_utf8(..)?; the exit
\* status of the command is not looked at
DelegateGitDir ==
    /\ pc = "delegate"
    /\ delegated' = TRUE
    /\ IF hook.git_dir = "ok"
       THEN /\ pc' = "stat"
            /\ UNCHANGED <<deleg_result, fail_at>>
       ELSE DelegateReturns("Err", "git_dir")
    /\ UNCHANGED <<args, branch_name, exists, content, current_message,
                   task_number_string, result, created, before, original,
                   calls, oks, current_branch, q1, q2, exit_code, hook,
                   hook_runs>>

\* repo_hook.exists(), fs::metadata(&repo_hook)?.permissions().mode(),
\* mode & 0o111 != 0
DelegateStat ==
    /\ pc = "stat"
    /\ \/ /\ ~hook.exists
          /\ DelegateReturns("Ok", "none")
       \/ /\ hook.exists
          /\ DelegateReturns("Err", "metadata")
       \/ /\ hook.exists
          /\ IF BitAnd(hook.mode, ExecBits) # 0
             THEN /\ pc' = "spawn"
                  /\ UNCHANGED <<deleg_result, fail_at>>
             ELSE DelegateReturns("Ok", "none")
    /\ UNCHANGED <<args, branch_name, exists, content, current_message,
                   task_number_string, result, created, before, original,
                   calls, oks, current_branch, q1, q2, exit_code, delegated,
                   hook, hook_runs>>

\* Command::new(&repo_hook_path).args(&args).status()?, then
\* process::exit(status.code().unwrap_or(1)) unless status.success()
DelegateRun ==
    /\ pc = "spawn"
    /\ \/ /\ hook.status = "spawn_err"
          /\ DelegateReturns("Err", "spawn")
          /\ UNCHANGED <<hook_runs, exit_code>>
       \/ /\ hook.status = "exited" /\ hook.code = 0
          /\ hook_runs' = Append(hook_runs, Drop(args, 1))
          /\ DelegateReturns("Ok", "none")
          /\ UNCHANGED exit_code
       \/ /\ hook.status = "exited" /\ hook.code # 0
          /\ hook_runs' = Append(hook_runs, Drop(args, 1))
          /\ exit_code' = hook.code
          /\ pc' = "exited"
          /\ UNCHANGED <<deleg_result, fail_at>>
       \/ /\ hook.status = "signaled"
          /\ hook_runs' = Append(hook_runs, Drop(args, 1))
          /\ exit_code' = 1
          /\ pc' = "exited"
          /\ UNCHANGED <<deleg_result, fail_at>>
    /\ UNCHANGED <<args, branch_name, exists, content, current_message,
                   task_number_string, result, created, before, original,
                   calls, oks, current_branch, q1, q2, delegated, hook>>

delegate_to_local_git_hook == DelegateGitDir \/ DelegateStat \/ DelegateRun

NextDelegate == delegate_to_local_git_hook

SpecDelegate == InitDelegate /\ [][NextDelegate]_vars

DelegateOver == pc \in {"delegate_done", "exited"}

\* the local hook was found: the hooks directory resolved and the file could
\* be inspected
HookFound == hook.git_dir = "ok" /\ fail_at # "metadata"

\* C7: an existing, executable local hook is invoked once with all the
\* arguments of this program; when it exits with a non-zero status c the
\* process ends with c, and with 3 when the hook cannot be invoked or yields
\* no code; a missing or non-executable hook is not run and delegation
\* returns success.
C7_TransparentDelegation ==
    (DelegateOver /\ HookFound) =>
        IF hook.exists /\ BitAnd(hook.mode, ExecBits) # 0
        THEN /\ hook.status # "spawn_err" => hook_runs = <<Drop(args, 1)>>
             /\ (hook.status = "exited" /\ hook.code # 0) =>
                   (pc = "exited" /\ exit_code = hook.code)
             /\ hook.status \in {"spawn_err", "signaled"} =>
                   (pc = "exited" /\ exit_code = 3)
             /\ (hook.status = "exited" /\ hook.code = 0) =>
                   (pc = "delegate_done" /\ deleg_result = "Ok")
        ELSE /\ hook_runs = <<>>
             /\ pc = "delegate_done"
             /\ deleg_result = "Ok"

\* the part of C7 the code does satisfy: everything but the default status 3
C7_ForwardsExitCode ==
    (DelegateOver /\ HookFound) =>
        IF hook.exists /\ BitAnd(hook.mode, ExecBits) # 0
        THEN /\ hook.status # "spawn_err" => hook_runs = <<Drop(args, 1)>>
             /\ (hook.status = "exited" /\ hook.code # 0) =>
                   (pc = "exited" /\ exit_code = hook.code)
             /\ hook.status = "signaled" => (pc = "exited" /\ exit_code = 1)
             /\ hook.status = "spawn_err" =>
                   (pc = "delegate_done" /\ deleg_result = "Err")
             /\ (hook.status = "exited" /\ hook.code = 0) =>
                   (pc = "delegate_done" /\ deleg_result = "Ok")
        ELSE /\ hook_runs = <<>>
             /\ pc = "delegate_done"
             /\ deleg_result = "Ok"

====
